---- MODULE Spec2Model ----
(***************************************************************************)
(* Model of the two batch scripts of arimgibson/scripts:                   *)
(*   src/recruiterContactScraping.ts   (contact scraper)                   *)
(*   src/parseGoogleKeepExportToMd.ts  (Google Keep note converter)        *)
(* Strings are sequences of one-character strings, so that split, replace, *)
(* endsWith, concatenation and localeCompare are computed on characters.   *)
(* JSON values are tagged records [t |-> type, v |-> payload].             *)
(***************************************************************************)
EXTENDS Integers, Sequences, FiniteSets, TLC

VARIABLES
    \* ---- contact scraper ----
    recruiterLinkedInURLs,  \* the input list read from the JSON file
    outputData,             \* OutputItem[] accumulated by the loop
    urlIdx,                 \* position of the for-of loop in the list
    spc,                    \* control point of the scraper
    events,                 \* history: lookups issued and delays slept
    visited,                \* history: indices of the URLs the loop took
    outcomes,               \* history: per visited URL, what the lookup did
    scraperWrites,          \* contents passed to Bun.write, in order
    \* ---- convertNoteToMarkdown pipeline on one note ----
    noteJson,               \* the note record being converted
    metadata,               \* Set of entries (insertion ordered)
    orderedMetadata,        \* result object of orderMetadata
    markdown,               \* rendered Markdown
    cpc,                    \* stage of the conversion
    \* ---- note converter run ----
    dryRun, testOneNote, shouldDeleteOriginalNotes,
    inputDir,               \* files present in noteInputDir (readdir order)
    fileJson,               \* file name -> parsed content
    notes,                  \* the listing readdir returned
    jsonNotes,              \* its entries ending in .json
    notesToProcess,         \* the list the loop iterates
    noteIdx,                \* position of the loop
    notesArchivedCount, notesTrashedCount, notesUnsortedCount,
    outputTree,             \* written files: sequence of [path, content]
    fsLog,                  \* history: file-system effects, in order
    processed,              \* history: per processed note, what was done
    report,                 \* the lines printed at the end
    rpc                     \* control point of the converter

scraperVars == <<recruiterLinkedInURLs, outputData, urlIdx, spc, events,
                 visited, outcomes, scraperWrites>>
convVars == <<noteJson, metadata, orderedMetadata, markdown, cpc>>
runVars == <<dryRun, testOneNote, shouldDeleteOriginalNotes, inputDir,
             fileJson, notes, jsonNotes, notesToProcess, noteIdx, notesArchivedCount,
             notesTrashedCount, notesUnsortedCount, outputTree, fsLog,
             processed, report, rpc>>
vars == <<scraperVars, convVars, runVars>>

(***************************************************************************)
(* Bounds of the model                                                     *)
(***************************************************************************)
MaxUrls == 3
MaxProps == 2
MaxFiles == 3

(***************************************************************************)
(* Strings                                                                 *)
(***************************************************************************)
Digits == <<"0", "1", "2", "3", "4", "5", "6", "7", "8", "9">>
Lower == <<"a", "b", "c", "d", "e", "f", "g", "h", "i", "j", "k", "l", "m",
           "n", "o", "p", "q", "r", "s", "t", "u", "v", "w", "x", "y", "z">>
Upper == <<"A", "B", "C", "D", "E", "F", "G", "H", "I", "J", "K", "L", "M",
           "N", "O", "P", "Q", "R", "S", "T", "U", "V", "W", "X", "Y", "Z">>

IsDigit(c) == \E i \in 1..10 : Digits[i] = c
DigitVal(c) == (CHOOSE i \in 1..10 : Digits[i] = c) - 1
IsLower(c) == \E i \in 1..26 : Lower[i] = c
IsUpper(c) == \E i \in 1..26 : Upper[i] = c

Drop(s, n) == SubSeq(s, n + 1, Len(s))
Take(s, n) == SubSeq(s, 1, n)

StartsWith(s, p) == Len(p) <= Len(s) /\ Take(s, Len(p)) = p
EndsWith(s, p) == Len(p) <= Len(s) /\ Drop(s, Len(s) - Len(p)) = p
Includes(list, x) == \E i \in 1..Len(list) : list[i] = x

\* String.prototype.split with a non-empty string separator
RECURSIVE SplitFrom(_, _, _)
SplitFrom(s, sep, cur) ==
    IF s = <<>> THEN <<cur>>
    ELSE IF StartsWith(s, sep)
         THEN <<cur>> \o SplitFrom(Drop(s, Len(sep)), sep, <<>>)
         ELSE SplitFrom(Tail(s), sep, Append(cur, Head(s)))
Split(s, sep) == SplitFrom(s, sep, <<>>)

\* String(n) for a non-negative integer
RECURSIVE ToDigits(_)
ToDigits(n) ==
    IF n < 10 THEN <<Digits[n + 1]>>
    ELSE Append(ToDigits(n \div 10), Digits[(n % 10) + 1])

RECURSIVE NumVal(_)
NumVal(s) ==
    IF s = <<>> THEN 0
    ELSE 10 * NumVal(Take(s, Len(s) - 1)) + DigitVal(s[Len(s)])

RECURSIVE Join(_, _)
Join(parts, sep) ==
    IF parts = <<>> THEN <<>>
    ELSE IF Len(parts) = 1 THEN parts[1]
    ELSE parts[1] \o sep \o Join(Tail(parts), sep)

(***************************************************************************)
(* JSON values                                                             *)
(***************************************************************************)
JNull == [t |-> "null"]
JUndefined == [t |-> "undefined"]
JStr(s) == [t |-> "str", v |-> s]
JNum(n) == [t |-> "num", v |-> n]
JBool(b) == [t |-> "bool", v |-> b]
JArr(items) == [t |-> "arr", v |-> items]
JObj(props) == [t |-> "obj", v |-> props]
Prop(k, v) == [k |-> k, v |-> v]

\* typeof value === "object" (null is excluded by the caller)
TypeofIsObject(value) == value.t \in {"obj", "arr", "null"}

\* JavaScript truthiness
Truthy(value) ==
    CASE value.t = "null" -> FALSE
      [] value.t = "undefined" -> FALSE
      [] value.t = "bool" -> value.v
      [] value.t = "num" -> value.v # 0
      [] value.t = "str" -> value.v # <<>>
      [] OTHER -> TRUE

(***************************************************************************)
(* Note converter, pure functions: src/parseGoogleKeepExportToMd.ts        *)
(***************************************************************************)
s_color == <<"c", "o", "l", "o", "r">>
s_isTrashed == <<"i", "s", "T", "r", "a", "s", "h", "e", "d">>
s_isPinned == <<"i", "s", "P", "i", "n", "n", "e", "d">>
s_isArchived == <<"i", "s", "A", "r", "c", "h", "i", "v", "e", "d">>
s_textContent == <<"t", "e", "x", "t", "C", "o", "n", "t", "e", "n", "t">>
s_textContentHtml == <<"t", "e", "x", "t", "C", "o", "n", "t", "e", "n", "t", "H", "t", "m", "l">>
s_title == <<"t", "i", "t", "l", "e">>
s_createdTimestampUsec ==
    <<"c", "r", "e", "a", "t", "e", "d", "T", "i", "m", "e", "s", "t", "a", "m", "p">>
    \o <<"U", "s", "e", "c">>
s_userEditedTimestampUsec ==
    <<"u", "s", "e", "r", "E", "d", "i", "t", "e", "d", "T", "i", "m", "e", "s", "t", "a", "m", "p">>
    \o <<"U", "s", "e", "c">>
s_json == <<".", "j", "s", "o", "n">>
s_undefined == <<"u", "n", "d", "e", "f", "i", "n", "e", "d">>
s_null == <<"n", "u", "l", "l">>
s_true == <<"t", "r", "u", "e">>
s_false == <<"f", "a", "l", "s", "e">>
s_metadataHeader ==
    <<"#", "#", " ", "M", "e", "t", "a", "d", "a", "t", "a", " ", "f", "r", "o", "m", " ">>
    \o <<"G", "o", "o", "g", "l", "e", " ", "K", "e", "e", "p">>

propertiesToIgnore == <<s_color, s_isTrashed, s_isPinned, s_isArchived,
                        s_textContent, s_textContentHtml>>
orderedProperties == <<s_title, s_createdTimestampUsec,
                       s_userEditedTimestampUsec>>

\* An own property key that is an array index (a canonical numeric string):
\* such keys are enumerated first, in ascending numeric order.  Keys of the
\* model have fewer than ten digits, all below 2^32 - 1.
IsArrayIndex(key) ==
    /\ key # <<>>
    /\ Len(key) <= 9
    /\ \A i \in 1..Len(key) : IsDigit(key[i])
    /\ (Len(key) = 1 \/ key[1] # "0")

\* insertion of an array-index key into keys sorted by numeric value
RECURSIVE InsertIndexKey(_, _)
InsertIndexKey(sorted, key) ==
    IF sorted = <<>> THEN <<key>>
    ELSE IF NumVal(key) < NumVal(Head(sorted))
         THEN <<key>> \o sorted
         ELSE <<Head(sorted)>> \o InsertIndexKey(Tail(sorted), key)

RECURSIVE IndexKeysOf(_)
IndexKeysOf(keys) ==
    IF keys = <<>> THEN <<>>
    ELSE IF IsArrayIndex(keys[Len(keys)])
         THEN InsertIndexKey(IndexKeysOf(Take(keys, Len(keys) - 1)),
                             keys[Len(keys)])
         ELSE IndexKeysOf(Take(keys, Len(keys) - 1))

\* own property keys of an ordinary object whose string keys were created
\* in the order of props: array indices ascending, then creation order
OwnKeys(props) ==
    LET created == [i \in 1..Len(props) |-> props[i].k]
    IN IndexKeysOf(created)
       \o SelectSeq(created, LAMBDA k : ~IsArrayIndex(k))

\* Object.keys(value) for an object or an array
ObjectKeys(value) ==
    IF value.t = "arr"
    THEN [i \in 1..Len(value.v) |-> ToDigits(i - 1)]
    ELSE OwnKeys(value.v)

HasProp(props, key) == \E i \in 1..Len(props) : props[i].k = key

\* value[key]
Get(value, key) ==
    IF value.t = "arr" THEN value.v[NumVal(key) + 1]
    ELSE IF HasProp(value.v, key)
         THEN value.v[CHOOSE i \in 1..Len(value.v) : value.v[i].k = key].v
         ELSE JUndefined

\* obj[key] = v on the property list of an ordinary object
SetProp(props, key, v) ==
    IF HasProp(props, key)
    THEN [i \in 1..Len(props) |->
             IF props[i].k = key THEN Prop(key, v) ELSE props[i]]
    ELSE Append(props, Prop(key, v))

\* Object.entries(obj)
ObjectEntries(obj) ==
    LET keys == ObjectKeys(obj)
    IN [i \in 1..Len(keys) |-> Prop(keys[i], Get(obj, keys[i]))]

\* lines 248-250
NormalizeChar(c) == IF c \in {"/", "\\", ":", "?"} THEN "_" ELSE c
normalizeTitle(title) == [i \in 1..Len(title) |-> NormalizeChar(title[i])]

\* line 198
IsNonNullObject(value) == value.t # "null" /\ TypeofIsObject(value)

\* line 196; the optional parameter propertyName is undefined or a string,
\* and both undefined and the empty string are falsy
CurrentPath(propertyName, property) ==
    IF Truthy(propertyName) THEN propertyName.v \o <<".">> \o property
    ELSE property

\* lines 187-207; the Set of fresh one-key objects is the sequence of
\* entries in insertion order (no two of its elements are the same object)
RECURSIVE recursivelyGetProperties(_, _, _)
recursivelyGetProperties(inputObj, accProperties, propertyName) ==
    LET keys == ObjectKeys(inputObj)
        RECURSIVE Loop(_, _)
        Loop(i, acc) ==
            IF i > Len(keys) THEN acc
            ELSE IF Includes(propertiesToIgnore, keys[i])
                 THEN Loop(i + 1, acc)
                 ELSE LET value == Get(inputObj, keys[i])
                          currentPath == CurrentPath(propertyName, keys[i])
                      IN IF IsNonNullObject(value)
                         THEN Loop(i + 1,
                                   recursivelyGetProperties(value, acc,
                                       JStr(currentPath)))
                         ELSE Loop(i + 1,
                                   Append(acc, Prop(currentPath, value)))
    IN Loop(1, accProperties)

\* collation weight of one character at the primary (base) level:
\* punctuation, then digits, then letters with case folded
Weight(c) ==
    CASE c = "_" -> 0
      [] c = "." -> 1
      [] IsDigit(c) -> 2 + DigitVal(c)
      [] IsLower(c) -> 11 + (CHOOSE i \in 1..26 : Lower[i] = c)
      [] IsUpper(c) -> 11 + (CHOOSE i \in 1..26 : Upper[i] = c)

RECURSIVE DigitRunLen(_)
DigitRunLen(s) ==
    IF s # <<>> /\ IsDigit(Head(s)) THEN 1 + DigitRunLen(Tail(s)) ELSE 0

\* lines 233-236: a.localeCompare(b, undefined, {numeric: true,
\* sensitivity: "base"}); digit runs compare by numeric value
RECURSIVE localeCompare(_, _)
localeCompare(a, b) ==
    IF a = <<>> /\ b = <<>> THEN 0
    ELSE IF a = <<>> THEN -1
    ELSE IF b = <<>> THEN 1
    ELSE IF IsDigit(Head(a)) /\ IsDigit(Head(b))
         THEN LET la == DigitRunLen(a)
                  lb == DigitRunLen(b)
                  na == NumVal(Take(a, la))
                  nb == NumVal(Take(b, lb))
              IN IF na < nb THEN -1
                 ELSE IF na > nb THEN 1
                 ELSE localeCompare(Drop(a, la), Drop(b, lb))
         ELSE IF Weight(Head(a)) < Weight(Head(b)) THEN -1
              ELSE IF Weight(Head(a)) > Weight(Head(b)) THEN 1
              ELSE localeCompare(Tail(a), Tail(b))

\* lines 213-214, 223-224: orderMap.get(key) ?? -1
SortKey(key) ==
    IF Includes(orderedProperties, key)
    THEN (CHOOSE i \in 1..Len(orderedProperties) :
              orderedProperties[i] = key) - 1
    ELSE -1

\* lines 216-237: the comparator, on the keys of two entries
Compare(aKey, bKey) ==
    LET aSortKey == SortKey(aKey)
        bSortKey == SortKey(bKey)
    IN IF aSortKey # -1 /\ bSortKey # -1 THEN aSortKey - bSortKey
       ELSE IF aSortKey # -1 THEN -1
       ELSE IF bSortKey # -1 THEN 1
       ELSE localeCompare(aKey, bKey)

\* Array.prototype.sort is stable: insert after every element that is not
\* after the new one
RECURSIVE InsertSorted(_, _)
InsertSorted(sorted, e) ==
    IF sorted = <<>> THEN <<e>>
    ELSE IF Compare(e.k, Head(sorted).k) < 0
         THEN <<e>> \o sorted
         ELSE <<Head(sorted)>> \o InsertSorted(Tail(sorted), e)

RECURSIVE SortEntries(_)
SortEntries(entries) ==
    IF entries = <<>> THEN <<>>
    ELSE InsertSorted(SortEntries(Take(entries, Len(entries) - 1)),
                      entries[Len(entries)])

\* lines 220-221, 242: an entry whose key is the empty string is "undefined"
OrderMetadataThrows(entries) ==
    \E i \in 1..Len(entries) : entries[i].k = <<>>

RECURSIVE CopyInto(_, _)
CopyInto(result, sorted) ==
    IF sorted = <<>> THEN result
    ELSE CopyInto(SetProp(result, Head(sorted).k, Head(sorted).v),
                  Tail(sorted))

\* lines 209-246 (when it does not throw)
orderMetadata(entries) == JObj(CopyInto(<<>>, SortEntries(entries)))

\* JSON.stringify(value) without indentation
RECURSIVE Stringify(_)
Stringify(value) ==
    CASE value.t = "null" -> s_null
      [] value.t = "undefined" -> s_null
      [] value.t = "bool" -> IF value.v THEN s_true ELSE s_false
      [] value.t = "num" -> ToDigits(value.v)
      [] value.t = "str" -> <<"\"">> \o value.v \o <<"\"">>
      [] value.t = "arr" ->
            <<"[">>
            \o Join([i \in 1..Len(value.v) |-> Stringify(value.v[i])],
                    <<",">>)
            \o <<"]">>
      [] value.t = "obj" ->
            LET es == ObjectEntries(value)
            IN <<"{">>
               \o Join([i \in 1..Len(es) |->
                           <<"\"">> \o es[i].k \o <<"\"", ":">>
                           \o Stringify(es[i].v)],
                       <<",">>)
               \o <<"}">>

\* lines 175-185
formatMetadataValue(value) ==
    CASE value.t \in {"null", "undefined"} -> <<>>
      [] value.t = "str" -> value.v
      [] value.t = "num" -> ToDigits(value.v)
      [] value.t = "bool" -> IF value.v THEN s_true ELSE s_false
      [] OTHER -> Stringify(value)

\* `${value}` in a template literal
TemplateString(value) ==
    CASE value.t = "undefined" -> s_undefined
      [] value.t = "null" -> s_null
      [] value.t = "str" -> value.v
      [] OTHER -> formatMetadataValue(value)

\* line 168
MetadataLine(entry) ==
    <<"*">> \o entry.k \o <<"*", ":", " ">> \o formatMetadataValue(entry.v)

\* lines 160-161: heading, blank line, text content
MarkdownHead(note) ==
    << <<"#", " ">> \o TemplateString(Get(note, s_title)),
       <<>>,
       TemplateString(Get(note, s_textContent)) >>

\* lines 165-169: the section header and one line per entry of the object
MarkdownMetadata(ordered) ==
    LET es == ObjectEntries(ordered)
    IN << <<>>, s_metadataHeader >>
       \o [i \in 1..Len(es) |-> MetadataLine(es[i])]

\* lines 154-173, as the list of lines of the Markdown string
ConvertThrows(note) ==
    OrderMetadataThrows(recursivelyGetProperties(note, <<>>, JUndefined))

convertNoteToMarkdown(note) ==
    MarkdownHead(note)
    \o MarkdownMetadata(
           orderMetadata(recursivelyGetProperties(note, <<>>, JUndefined)))

(***************************************************************************)
(* Contact scraper: src/recruiterContactScraping.ts                        *)
(***************************************************************************)
InSegment == <<"/", "i", "n", "/">>
LinkedInPrefix == <<"l", "i">> \o InSegment

\* URLs the input file may list: well formed, empty identifier, no /in/
\* segment, two /in/ segments
UrlPool == { <<"l", "i", "/", "i", "n", "/", "b", "o">>,
             <<"l", "i", "/", "i", "n", "/">>,
             <<"l", "i", "/", "b", "o">>,
             <<"l", "i", "/", "i", "n", "/", "a", "l", "/", "i", "n", "/",
               "x">> }

RECURSIVE SeqsUpTo(_, _)
SeqsUpTo(S, n) ==
    IF n = 0 THEN {<<>>}
    ELSE LET shorter == SeqsUpTo(S, n - 1)
         IN shorter \cup {Append(s, x) : s \in shorter, x \in S}

\* url.split("/in/")[1]
ProfileUrn(url) ==
    LET parts == Split(url, InSegment)
    IN IF Len(parts) >= 2 THEN JStr(parts[2]) ELSE JUndefined

\* what getProfile may resolve to for an identifier
Responses(identifier) ==
    { [provider |-> "LINKEDIN", public_identifier |-> JStr(identifier),
       first_name |-> JStr(<<"B">>), last_name |-> JStr(<<"O">>)],
      [provider |-> "LINKEDIN", public_identifier |-> JStr(identifier),
       first_name |-> JStr(<<"B">>), last_name |-> JUndefined],
      [provider |-> "LINKEDIN", public_identifier |-> JNull,
       first_name |-> JStr(<<"B">>), last_name |-> JStr(<<"O">>)],
      [provider |-> "WHATSAPP", public_identifier |-> JUndefined,
       first_name |-> JUndefined, last_name |-> JUndefined],
      [provider |-> "WHATSAPP", public_identifier |-> JStr(identifier),
       first_name |-> JStr(<<"B">>), last_name |-> JStr(<<"O">>)] }

\* the provider test of line 90 left out
IsValidContact_AnyProvider(contact) ==
    contact.public_identifier.t = "str"

IsValidContact(contact) ==
    contact.provider = "LINKEDIN" /\ contact.public_identifier.t = "str"

OutputItem(contact) ==
    [fullName |-> IF Truthy(contact.first_name) /\ Truthy(contact.last_name)
                  THEN JStr(contact.first_name.v \o <<" ">>
                            \o contact.last_name.v)
                  ELSE JNull,
     profileUrl |-> JStr(LinkedInPrefix
                         \o TemplateString(contact.public_identifier))]

InitScraperVars ==
    /\ recruiterLinkedInURLs \in SeqsUpTo(UrlPool, MaxUrls)
    /\ outputData = <<>>
    /\ urlIdx = 1
    /\ spc = "loop"
    /\ events = <<>>
    /\ visited = <<>>
    /\ outcomes = <<>>
    /\ scraperWrites = <<>>

IdleScraperVars ==
    /\ recruiterLinkedInURLs = <<>>
    /\ outputData = <<>>
    /\ urlIdx = 1
    /\ spc = "idle"
    /\ events = <<>>
    /\ visited = <<>>
    /\ outcomes = <<>>
    /\ scraperWrites = <<>>

\* lines 75-80: no usable identifier after /in/, log and continue
SkipInvalidUrl ==
    /\ spc = "loop"
    /\ urlIdx <= Len(recruiterLinkedInURLs)
    /\ ~Truthy(ProfileUrn(recruiterLinkedInURLs[urlIdx]))
    /\ visited' = Append(visited, urlIdx)
    /\ outcomes' = Append(outcomes, [kind |-> "nourn"])
    /\ urlIdx' = urlIdx + 1
    /\ UNCHANGED <<recruiterLinkedInURLs, outputData, spc, events,
                   scraperWrites>>
    /\ UNCHANGED <<convVars, runVars>>

\* lines 75-87: the identifier is usable, the lookup is issued
CallGetProfile ==
    /\ spc = "loop"
    /\ urlIdx <= Len(recruiterLinkedInURLs)
    /\ Truthy(ProfileUrn(recruiterLinkedInURLs[urlIdx]))
    /\ visited' = Append(visited, urlIdx)
    /\ events' = Append(events, <<"lookup", urlIdx>>)
    /\ spc' = "await_profile"
    /\ UNCHANGED <<recruiterLinkedInURLs, outputData, urlIdx, outcomes,
                   scraperWrites>>
    /\ UNCHANGED <<convVars, runVars>>

\* lines 125-127: the awaited lookup rejects, the catch logs, next URL
GetProfileThrows ==
    /\ spc = "await_profile"
    /\ outcomes' = Append(outcomes, [kind |-> "threw"])
    /\ urlIdx' = urlIdx + 1
    /\ spc' = "loop"
    /\ UNCHANGED <<recruiterLinkedInURLs, outputData, events, visited,
                   scraperWrites>>
    /\ UNCHANGED <<convVars, runVars>>

\* lines 89-122: the lookup resolves; push a record or warn
GetProfileReturns ==
    /\ spc = "await_profile"
    /\ \E contact \in
            Responses(ProfileUrn(recruiterLinkedInURLs[urlIdx]).v) :
          /\ outputData' = IF IsValidContact(contact)
                            THEN Append(outputData, OutputItem(contact))
                            ELSE outputData
          /\ outcomes' = Append(outcomes, [kind |-> "returned",
                                           contact |-> contact])
    /\ spc' = "sleep"
    /\ UNCHANGED <<recruiterLinkedInURLs, urlIdx, events, visited,
                   scraperWrites>>
    /\ UNCHANGED <<convVars, runVars>>

\* line 124: await Bun.sleep(5000 + Math.random() * 1000)
Sleep ==
    /\ spc = "sleep"
    /\ events' = Append(events, <<"sleep", urlIdx>>)
    /\ urlIdx' = urlIdx + 1
    /\ spc' = "loop"
    /\ UNCHANGED <<recruiterLinkedInURLs, outputData, visited, outcomes,
                   scraperWrites>>
    /\ UNCHANGED <<convVars, runVars>>

\* lines 130-134: the loop is over, the report is written
WriteOutput ==
    /\ spc = "loop"
    /\ urlIdx > Len(recruiterLinkedInURLs)
    /\ scraperWrites' = Append(scraperWrites, outputData)
    /\ spc' = "done"
    /\ UNCHANGED <<recruiterLinkedInURLs, outputData, urlIdx, events,
                   visited, outcomes>>
    /\ UNCHANGED <<convVars, runVars>>

(***************************************************************************)
(* convertNoteToMarkdown on one note record, stage by stage                *)
(***************************************************************************)
k_empty == <<>>
k_a == <<"a">>
k_A == <<"A">>
k_a2 == <<"a", "2">>
k_a10 == <<"a", "1", "0">>
k_7 == <<"7">>
k_b == <<"b">>
v_x == JStr(<<"x">>)

\* property names a record may carry at its root
TopKeys == {k_empty, k_a, k_A, k_a2, k_a10, k_7, s_title,
            s_createdTimestampUsec, s_color}

\* values a property may hold: scalars, null, arrays, nested objects
ValuePool ==
    { v_x, JNum(2), JNull,
      JArr(<<>>),
      JArr(<<v_x, JNum(2)>>),
      JObj(<<Prop(k_b, JNum(2))>>),
      JObj(<<Prop(s_color, JObj(<<Prop(k_b, JNum(2))>>)),
             Prop(k_b, JNull), Prop(k_7, v_x)>>),
      JObj(<<Prop(k_a, JObj(<<Prop(k_b, v_x), Prop(s_isPinned, v_x)>>)),
             Prop(k_A, JObj(<<>>))>>),
      JObj(<<Prop(k_b, JArr(<<JObj(<<Prop(k_a, v_x)>>)>>))>>) }

DistinctKeys(props) ==
    \A i, j \in 1..Len(props) : i # j => props[i].k # props[j].k

\* note records: up to n properties with distinct names
NoteRecords(n) ==
    { JObj(props) :
        props \in { ps \in SeqsUpTo({Prop(k, v) : k \in TopKeys,
                                                  v \in ValuePool}, n) :
                       DistinctKeys(ps) } }

InitConvVars ==
    /\ noteJson \in NoteRecords(MaxProps)
    /\ metadata = <<>>
    /\ orderedMetadata = JObj(<<>>)
    /\ markdown = <<>>
    /\ cpc = "start"

IdleConvVars ==
    /\ noteJson = JObj(<<>>)
    /\ metadata = <<>>
    /\ orderedMetadata = JObj(<<>>)
    /\ markdown = <<>>
    /\ cpc = "idle"

\* lines 155-161
Flatten ==
    /\ cpc = "start"
    /\ metadata' = recursivelyGetProperties(noteJson, <<>>, JUndefined)
    /\ markdown' = MarkdownHead(noteJson)
    /\ cpc' = "flattened"
    /\ UNCHANGED <<noteJson, orderedMetadata>>
    /\ UNCHANGED <<scraperVars, runVars>>

\* line 164, orderMetadata returns
Order ==
    /\ cpc = "flattened"
    /\ ~OrderMetadataThrows(metadata)
    /\ orderedMetadata' = orderMetadata(metadata)
    /\ cpc' = "ordered"
    /\ UNCHANGED <<noteJson, metadata, markdown>>
    /\ UNCHANGED <<scraperVars, runVars>>

\* line 164, orderMetadata throws "Invalid metadata"
OrderThrows ==
    /\ cpc = "flattened"
    /\ OrderMetadataThrows(metadata)
    /\ cpc' = "threw"
    /\ UNCHANGED <<noteJson, metadata, orderedMetadata, markdown>>
    /\ UNCHANGED <<scraperVars, runVars>>

\* lines 165-172
Render ==
    /\ cpc = "ordered"
    /\ markdown' = markdown \o MarkdownMetadata(orderedMetadata)
    /\ cpc' = "rendered"
    /\ UNCHANGED <<noteJson, metadata, orderedMetadata>>
    /\ UNCHANGED <<scraperVars, runVars>>

(***************************************************************************)
(* Note converter run: src/parseGoogleKeepExportToMd.ts, lines 85-151      *)
(***************************************************************************)
f_p == <<"p">> \o s_json
f_q == <<"q">> \o s_json
f_r == <<"r">> \o s_json
f_t == <<"t", ".", "t", "x", "t">>
s_md == <<".", "m", "d">>
d_trash == <<"t", "r", "a", "s", "h">>
d_archive == <<"a", "r", "c", "h", "i", "v", "e">>
d_unsorted == <<"u", "n", "s", "o", "r", "t", "e", "d">>
t_Aq == <<"A", "?">>

\* files the export directory may hold, in the order readdir lists them
FilePool == <<f_p, f_t, f_q, f_r>>

RECURSIVE SubSeqs(_)
SubSeqs(s) ==
    IF s = <<>> THEN {<<>>}
    ELSE LET rest == SubSeqs(Tail(s))
         IN rest \cup {<<Head(s)>> \o r : r \in rest}

Listings == {d \in SubSeqs(FilePool) : Len(d) <= MaxFiles}

\* note records an exported file may hold
NotePool ==
    { JObj(<<Prop(s_title, JStr(title)),
             Prop(s_textContent, JStr(text)),
             Prop(s_isTrashed, JBool(trashed)),
             Prop(s_isArchived, JBool(archived))>>) :
        title \in {<<>>, t_Aq}, text \in {<<"x">>, <<"y">>},
        trashed \in BOOLEAN, archived \in BOOLEAN }

IsJsonNote(note) == EndsWith(note, s_json)
ElemsOf(seq) == {seq[i] : i \in 1..Len(seq)}

InitRunVars ==
    /\ dryRun \in BOOLEAN
    /\ testOneNote \in BOOLEAN
    /\ shouldDeleteOriginalNotes \in BOOLEAN
    /\ inputDir \in Listings
    /\ fileJson \in [{n \in ElemsOf(inputDir) : IsJsonNote(n)} -> NotePool]
    /\ notes = <<>>
    /\ jsonNotes = <<>>
    /\ notesToProcess = <<>>
    /\ noteIdx = 1
    /\ notesArchivedCount = 0
    /\ notesTrashedCount = 0
    /\ notesUnsortedCount = 0
    /\ outputTree = <<>>
    /\ fsLog = <<>>
    /\ processed = <<>>
    /\ report = <<>>
    /\ rpc = "start"

IdleRunVars ==
    /\ dryRun = FALSE
    /\ testOneNote = FALSE
    /\ shouldDeleteOriginalNotes = FALSE
    /\ inputDir = <<>>
    /\ fileJson = <<>>
    /\ notes = <<>>
    /\ jsonNotes = <<>>
    /\ notesToProcess = <<>>
    /\ noteIdx = 1
    /\ notesArchivedCount = 0
    /\ notesTrashedCount = 0
    /\ notesUnsortedCount = 0
    /\ outputTree = <<>>
    /\ fsLog = <<>>
    /\ processed = <<>>
    /\ report = <<>>
    /\ rpc = "idle"

\* the two tests of lines 110 and 118 in the other order
Category_ArchivedFirst(isTrashed, isArchived) ==
    IF Truthy(isArchived) THEN d_archive
    ELSE IF Truthy(isTrashed) THEN d_trash
    ELSE d_unsorted

\* lines 110, 118, 126
Category(isTrashed, isArchived) ==
    IF Truthy(isTrashed) THEN d_trash
    ELSE IF Truthy(isArchived) THEN d_archive
    ELSE d_unsorted

\* lines 113, 121, 131
ShouldWrite(dry) == ~dry

\* the dry-run test of line 139 left out
ShouldDelete_IgnoresDryRun(deleteOriginal, dry) == deleteOriginal

\* lines 138-139
ShouldDelete(deleteOriginal, dry) == deleteOriginal /\ ~dry

\* lines 114, 122, 132: `${noteOutputDir}/<category>/${title}.md`
OutputPath(category, title) == category \o <<"/">> \o title \o s_md

\* Bun.write(path, content) on the output tree
WriteFile(tree, path, content) ==
    IF \E i \in 1..Len(tree) : tree[i].path = path
    THEN [i \in 1..Len(tree) |->
             IF tree[i].path = path
             THEN [path |-> path, content |-> content] ELSE tree[i]]
    ELSE Append(tree, [path |-> path, content |-> content])

\* lines 100-103
WithTitle(raw, note) ==
    LET title0 == Get(raw, s_title)
        titled == IF ~Truthy(title0) \/ title0 = JStr(<<>>)
                  THEN SetProp(raw.v, s_title, JStr(note))
                  ELSE raw.v
    IN JObj(SetProp(titled, s_title,
                    JStr(normalizeTitle(Get(JObj(titled), s_title).v))))

\* lines 85-92
ReadDir ==
    /\ rpc = "start"
    /\ notes' = inputDir
    /\ jsonNotes' = SelectSeq(inputDir, IsJsonNote)
    /\ notesToProcess' =
          IF testOneNote
          THEN <<IF jsonNotes' # <<>> THEN JStr(jsonNotes'[1])
                 ELSE JUndefined>>
          ELSE [i \in 1..Len(jsonNotes') |-> JStr(jsonNotes'[i])]
    /\ rpc' = "loop"
    /\ UNCHANGED <<dryRun, testOneNote, shouldDeleteOriginalNotes, inputDir,
                   fileJson, noteIdx, notesArchivedCount, notesTrashedCount,
                   notesUnsortedCount, outputTree, fsLog, processed, report>>
    /\ UNCHANGED <<scraperVars, convVars>>

\* lines 95-99 with jsonNotes[0] undefined: the file does not exist and the
\* awaited json() rejects; nothing catches it
ReadFails ==
    /\ rpc = "loop"
    /\ noteIdx <= Len(notesToProcess)
    /\ notesToProcess[noteIdx].t = "undefined"
    /\ rpc' = "crashed"
    /\ UNCHANGED <<dryRun, testOneNote, shouldDeleteOriginalNotes, inputDir,
                   fileJson, notes, jsonNotes, notesToProcess, noteIdx,
                   notesArchivedCount, notesTrashedCount, notesUnsortedCount,
                   outputTree, fsLog, processed, report>>
    /\ UNCHANGED <<scraperVars, convVars>>

\* lines 95-136: read, convert, classify, count, write
ProcessNote ==
    /\ rpc = "loop"
    /\ noteIdx <= Len(notesToProcess)
    /\ notesToProcess[noteIdx].t = "str"
    /\ LET note == notesToProcess[noteIdx].v
           json == WithTitle(fileJson[note], note)
           isArchived == Get(json, s_isArchived)
           isTrashed == Get(json, s_isTrashed)
           title == Get(json, s_title).v
           category == Category(isTrashed, isArchived)
           path == OutputPath(category, title)
       IN IF ConvertThrows(json)
          THEN /\ rpc' = "crashed"
               /\ UNCHANGED <<noteIdx, notesArchivedCount, notesTrashedCount,
                              notesUnsortedCount, outputTree, fsLog,
                              processed>>
          ELSE /\ notesTrashedCount' =
                     notesTrashedCount + IF category = d_trash THEN 1 ELSE 0
               /\ notesArchivedCount' =
                     notesArchivedCount
                     + IF category = d_archive THEN 1 ELSE 0
               /\ notesUnsortedCount' =
                     notesUnsortedCount
                     + IF category = d_unsorted THEN 1 ELSE 0
               /\ IF ShouldWrite(dryRun)
                  THEN /\ outputTree' =
                             WriteFile(outputTree, path,
                                       convertNoteToMarkdown(json))
                       /\ fsLog' = Append(fsLog, [op |-> "write",
                                                  note |-> note,
                                                  path |-> path])
                  ELSE UNCHANGED <<outputTree, fsLog>>
               /\ processed' =
                     Append(processed,
                            [note |-> note, category |-> category,
                             path |-> path,
                             markdown |-> convertNoteToMarkdown(json)])
               /\ IF shouldDeleteOriginalNotes
                  THEN rpc' = "delete" /\ UNCHANGED noteIdx
                  ELSE rpc' = "loop" /\ noteIdx' = noteIdx + 1
    /\ UNCHANGED <<dryRun, testOneNote, shouldDeleteOriginalNotes, inputDir,
                   fileJson, notes, jsonNotes, notesToProcess, report>>
    /\ UNCHANGED <<scraperVars, convVars>>

\* lines 138-145
DeleteOriginal ==
    /\ rpc = "delete"
    /\ LET note == notesToProcess[noteIdx].v
       IN IF ShouldDelete(shouldDeleteOriginalNotes, dryRun)
          THEN /\ inputDir' = SelectSeq(inputDir, LAMBDA n : n # note)
               /\ fsLog' = Append(fsLog, [op |-> "delete", note |-> note,
                                          path |-> note])
          ELSE UNCHANGED <<inputDir, fsLog>>
    /\ noteIdx' = noteIdx + 1
    /\ rpc' = "loop"
    /\ UNCHANGED <<dryRun, testOneNote, shouldDeleteOriginalNotes, fileJson,
                   notes, jsonNotes, notesToProcess, notesArchivedCount,
                   notesTrashedCount, notesUnsortedCount, outputTree,
                   processed, report>>
    /\ UNCHANGED <<scraperVars, convVars>>

\* lines 149-151
Report ==
    /\ rpc = "loop"
    /\ noteIdx > Len(notesToProcess)
    /\ report' = << [label |-> "Notes total", value |-> Len(jsonNotes)],
                    [label |-> "Notes archived",
                     value |-> notesArchivedCount],
                    [label |-> "Notes trashed",
                     value |-> notesTrashedCount] >>
    /\ rpc' = "done"
    /\ UNCHANGED <<dryRun, testOneNote, shouldDeleteOriginalNotes, inputDir,
                   fileJson, notes, jsonNotes, notesToProcess, noteIdx,
                   notesArchivedCount, notesTrashedCount, notesUnsortedCount,
                   outputTree, fsLog, processed>>
    /\ UNCHANGED <<scraperVars, convVars>>

(***************************************************************************)
(* Specifications                                                          *)
(***************************************************************************)
InitScraper == InitScraperVars /\ IdleConvVars /\ IdleRunVars
NextScraper ==
    \/ SkipInvalidUrl
    \/ CallGetProfile
    \/ GetProfileThrows
    \/ GetProfileReturns
    \/ Sleep
    \/ WriteOutput
SpecScraper == InitScraper /\ [][NextScraper]_vars
\* the script runs to completion: every await settles, every step is taken
FairSpecScraper == SpecScraper /\ WF_vars(NextScraper)

InitConv == IdleScraperVars /\ InitConvVars /\ IdleRunVars
NextConv ==
    \/ Flatten
    \/ Order
    \/ OrderThrows
    \/ Render
SpecConv == InitConv /\ [][NextConv]_vars

InitRun == IdleScraperVars /\ IdleConvVars /\ InitRunVars
NextRun ==
    \/ ReadDir
    \/ ReadFails
    \/ ProcessNote
    \/ DeleteOriginal
    \/ Report
SpecRun == InitRun /\ [][NextRun]_vars

(***************************************************************************)
(* Properties of the contact scraper                                       *)
(***************************************************************************)
IsLookup(e) == e[1] = "lookup"
IsSleep(e) == e[1] = "sleep"

\* C6: a pacing delay follows every processed record, successful or not, so
\* no two lookups are issued without a delay between them
C6_DelayAfterEveryRecord ==
    /\ \A j \in 1..Len(events) - 1 :
          IsLookup(events[j]) => IsSleep(events[j + 1])
    /\ (spc = "loop" /\ events # <<>>) => IsSleep(events[Len(events)])

\* the lookup of an outcome was valid: expected provider and a string
\* public identifier
ValidOutcome(o) ==
    /\ o.kind = "returned"
    /\ o.contact.provider = "LINKEDIN"
    /\ o.contact.public_identifier.t = "str"

ValidIndices ==
    SelectSeq([j \in 1..Len(outcomes) |-> j],
              LAMBDA j : ValidOutcome(outcomes[j]))

\* one record per valid lookup, in input order, and no other record
OutputMatchesValidLookups ==
    /\ Len(outputData) = Len(ValidIndices)
    /\ \A k \in 1..Len(ValidIndices) :
          outputData[k].profileUrl =
              JStr(LinkedInPrefix
                   \o Split(recruiterLinkedInURLs[ValidIndices[k]],
                            InSegment)[2])

ScraperRunOK ==
    /\ visited = [j \in 1..Len(visited) |-> j]
    /\ Len(visited) <= Len(recruiterLinkedInURLs)
    /\ Len(outcomes) <= Len(visited)
    /\ OutputMatchesValidLookups
    /\ spc # "done" => scraperWrites = <<>>
    /\ spc = "done" =>
          /\ Len(visited) = Len(recruiterLinkedInURLs)
          /\ Len(outcomes) = Len(recruiterLinkedInURLs)
          /\ scraperWrites = <<outputData>>

\* C7: no per-record failure aborts the batch: every URL is visited once in
\* input order, the run always reaches the final write, the file is written
\* exactly once after the last URL and holds exactly one record per URL
\* whose lookup was valid, in input order
C7_NoFailureAbortsBatch == [](ScraperRunOK) /\ <>(spc = "done")

\* a finished run in which a lookup threw, a URL had no identifier, a
\* lookup was rejected, and a later lookup was valid and recorded
C7_Witness ==
    /\ spc = "done"
    /\ Len(scraperWrites) = 1
    /\ \E i, j \in 1..Len(outcomes) :
          /\ i < j
          /\ outcomes[i].kind = "threw"
          /\ ValidOutcome(outcomes[j])
    /\ \E i \in 1..Len(outcomes) : outcomes[i].kind = "nourn"
    /\ Len(outputData) >= 1

(***************************************************************************)
(* Properties of flatten, order and render                                 *)
(***************************************************************************)
Flattened == cpc \in {"flattened", "ordered", "threw", "rendered"}

\* the dotted path of a property: the parent's path extended by .name, the
\* bare name at the root
DottedPath(parent, name) ==
    IF parent.t = "undefined" THEN name ELSE parent.v \o <<".">> \o name

\* the array-valued fields of a record reachable through plain objects and
\* non-ignored names, with their dotted paths
RECURSIVE ArrayFields(_, _)
ArrayFields(obj, parent) ==
    LET RECURSIVE Scan(_)
        Scan(i) ==
            IF i > Len(obj.v) THEN <<>>
            ELSE LET p == obj.v[i]
                     path == DottedPath(parent, p.k)
                 IN (IF Includes(propertiesToIgnore, p.k) THEN <<>>
                     ELSE IF p.v.t = "arr" THEN <<Prop(path, p.v)>>
                     ELSE IF p.v.t = "obj"
                          THEN ArrayFields(p.v, JStr(path))
                     ELSE <<>>)
                    \o Scan(i + 1)
    IN Scan(1)

ExtendsWithIndex(path, field) ==
    /\ StartsWith(path, field \o <<".">>)
    /\ Len(path) > Len(field) + 1
    /\ IsDigit(path[Len(field) + 2])

\* C2: an array-valued field is a leaf of flatten: exactly one entry for
\* the field, carrying the whole array, and no entry for an element index
C2_ArrayIsLeaf ==
    Flattened =>
        \A n \in 1..Len(ArrayFields(noteJson, JUndefined)) :
            LET f == ArrayFields(noteJson, JUndefined)[n]
            IN /\ Cardinality({i \in 1..Len(metadata) :
                                  metadata[i].k = f.k}) = 1
               /\ \A i \in 1..Len(metadata) :
                     /\ metadata[i].k = f.k => metadata[i].v = f.v
                     /\ ~ExtendsWithIndex(metadata[i].k, f.k)

RECURSIVE NoArrays(_)
NoArrays(value) ==
    /\ value.t # "arr"
    /\ value.t = "obj" =>
          \A i \in 1..Len(value.v) : NoArrays(value.v[i].v)

\* the non-object leaves reachable from the root without passing through
\* an ignored name, with their dotted paths
RECURSIVE Leaves(_, _)
Leaves(obj, parent) ==
    LET RECURSIVE Scan(_)
        Scan(i) ==
            IF i > Len(obj.v) THEN <<>>
            ELSE LET p == obj.v[i]
                     path == DottedPath(parent, p.k)
                 IN (IF Includes(propertiesToIgnore, p.k) THEN <<>>
                     ELSE IF p.v.t = "obj" THEN Leaves(p.v, JStr(path))
                     ELSE <<Prop(path, p.v)>>)
                    \o Scan(i + 1)
    IN Scan(1)

Count(seq, x) == Cardinality({i \in 1..Len(seq) : seq[i] = x})

\* C3: on a record without arrays, flatten emits exactly one entry per
\* non-object leaf reachable without passing through an ignored name, at
\* the leaf's dotted path, and nothing else
C3_LeavesExactly ==
    (Flattened /\ NoArrays(noteJson)) =>
        LET leaves == Leaves(noteJson, JUndefined)
        IN /\ Len(metadata) = Len(leaves)
           /\ \A i \in 1..Len(leaves) :
                 Count(metadata, leaves[i]) = Count(leaves, leaves[i])

\* the keys in the order convertNoteToMarkdown iterates them (line 166)
IteratedKeys ==
    LET es == ObjectEntries(orderedMetadata)
    IN [i \in 1..Len(es) |-> es[i].k]

IsPriority(key) == Includes(orderedProperties, key)
PriorityIndex(key) ==
    CHOOSE i \in 1..Len(orderedProperties) : orderedProperties[i] = key

\* C4: the metadata lines list the priority entries first, in the order of
\* the priority list, then the others by case-insensitive natural order
C4_MetadataOrder ==
    cpc = "rendered" =>
        /\ {IteratedKeys[i] : i \in 1..Len(IteratedKeys)}
              = {metadata[i].k : i \in 1..Len(metadata)}
        /\ \A i \in 1..Len(IteratedKeys) :
              markdown[5 + i] = <<"*">> \o IteratedKeys[i] \o <<"*", ":", " ">>
                                \o formatMetadataValue(
                                       Get(orderedMetadata, IteratedKeys[i]))
        /\ \A i, j \in 1..Len(IteratedKeys) :
              i < j =>
                 LET a == IteratedKeys[i]
                     b == IteratedKeys[j]
                 IN /\ (IsPriority(a) /\ IsPriority(b))
                          => PriorityIndex(a) < PriorityIndex(b)
                    /\ ~IsPriority(a)
                          => (~IsPriority(b) /\ localeCompare(a, b) <= 0)

Before(a, b) == Compare(a, b) < 0

\* C5: the comparator is a strict total order on the entries of one note:
\* of two entries with distinct paths exactly one is before the other, and
\* before is transitive
C5_StrictTotalOrder ==
    Flattened =>
        LET paths == {metadata[i].k : i \in 1..Len(metadata)} \ {<<>>}
        IN /\ \A a, b \in paths :
                 a # b => /\ Compare(a, b) # 0
                          /\ Before(a, b) # Before(b, a)
           /\ \A a, b, c \in paths :
                 (Before(a, b) /\ Before(b, c)) => Before(a, c)

(***************************************************************************)
(* Properties of the note converter run                                    *)
(***************************************************************************)
CountersSum == notesTrashedCount + notesArchivedCount + notesUnsortedCount
FlagOf(note, flag) == Get(fileJson[note], flag).v
NoteProcessed == Len(processed') = Len(processed) + 1
LastProcessed == processed'[Len(processed')]

\* C1: each processed note goes to exactly one category, trashed before
\* archived; exactly one counter is incremented and at most one file is
\* written per note; a note with both flags set never reaches archive
C1_Routing ==
    [][IF NoteProcessed
       THEN LET trashed == FlagOf(LastProcessed.note, s_isTrashed)
                archived == FlagOf(LastProcessed.note, s_isArchived)
                expected == IF trashed THEN d_trash
                            ELSE IF archived THEN d_archive
                            ELSE d_unsorted
            IN /\ notesTrashedCount' - notesTrashedCount
                     = IF trashed THEN 1 ELSE 0
               /\ notesArchivedCount' - notesArchivedCount
                     = IF ~trashed /\ archived THEN 1 ELSE 0
               /\ notesUnsortedCount' - notesUnsortedCount
                     = IF ~trashed /\ ~archived THEN 1 ELSE 0
               /\ LastProcessed.category = expected
               /\ Len(fsLog') <= Len(fsLog) + 1
               /\ Len(outputTree') <= Len(outputTree) + 1
               /\ \A i \in 1..Len(outputTree') :
                     (i > Len(outputTree)
                         \/ outputTree'[i] # outputTree[i])
                        => StartsWith(outputTree'[i].path,
                                      expected \o <<"/">>)
       ELSE UNCHANGED <<notesTrashedCount, notesArchivedCount,
                        notesUnsortedCount, outputTree>>]_vars

\* a note with both flags set has been processed and written under trash
C1_Witness ==
    /\ ~dryRun
    /\ \E i \in 1..Len(processed) :
          /\ FlagOf(processed[i].note, s_isTrashed)
          /\ FlagOf(processed[i].note, s_isArchived)
          /\ processed[i].category = d_trash
          /\ \E j \in 1..Len(outputTree) :
                outputTree[j].path = processed[i].path
    /\ notesTrashedCount >= 1
    /\ notesArchivedCount = 0

Deleted == {fsLog[i].note : i \in {j \in 1..Len(fsLog) :
                                        fsLog[j].op = "delete"}}

\* C8: a dry run writes and deletes nothing while notes are still
\* classified and counted; otherwise an original is deleted only when
\* delete-original is set and only after its Markdown file was written
C8_DryRunAndDeleteGuards ==
    rpc # "start" =>
        /\ dryRun =>
              /\ outputTree = <<>>
              /\ fsLog = <<>>
              /\ inputDir = notes
              /\ CountersSum = Len(processed)
              /\ rpc = "done" => Len(processed) = Len(notesToProcess)
        /\ inputDir = SelectSeq(notes, LAMBDA n : n \notin Deleted)
        /\ \A i \in 1..Len(fsLog) :
              fsLog[i].op = "delete" =>
                 /\ shouldDeleteOriginalNotes
                 /\ ~dryRun
                 /\ \E j \in 1..(i - 1) :
                       /\ fsLog[j].op = "write"
                       /\ fsLog[j].note = fsLog[i].note

\* a finished dry run with delete-original set that classified two notes
C8_Witness ==
    /\ dryRun
    /\ shouldDeleteOriginalNotes
    /\ rpc = "done"
    /\ Len(processed) >= 2
    /\ notesTrashedCount >= 1
    /\ inputDir = notes
    /\ outputTree = <<>>

\* C9: after a non-dry run the output tree holds one Markdown file per
\* processed note, each note's Markdown being the content of its file
C9_OneFilePerNote ==
    (rpc = "done" /\ ~dryRun) =>
        /\ Len(outputTree) = Len(processed)
        /\ \A i \in 1..Len(processed) :
              \E j \in 1..Len(outputTree) :
                 /\ outputTree[j].path = processed[i].path
                 /\ outputTree[j].content = processed[i].markdown

Reported(label) ==
    {report[i].value : i \in {j \in 1..Len(report) :
                                  report[j].label = label}}

\* C10: the three counters always sum to the number of notes processed,
\* and at the end the reported total equals the number processed and the
\* sum of the three counters, each of which is reported
C10_CountersReported ==
    /\ CountersSum = Len(processed)
    /\ rpc = "done" =>
          /\ Reported("Notes total") = {Len(processed)}
          /\ Reported("Notes total") = {CountersSum}
          /\ Reported("Notes archived") = {notesArchivedCount}
          /\ Reported("Notes trashed") = {notesTrashedCount}
          /\ Reported("Notes unsorted") = {notesUnsortedCount}

====
